---- MODULE Spec2Model ----
(***************************************************************************)
(* toml-cfg: the #[toml_config] attribute macro (src/src/lib.rs).          *)
(*                                                                         *)
(* One expansion of the macro is modelled as a small sequential process:   *)
(*   "start"  -> Prologue   (lines 138-149: strict-mode signal, document   *)
(*                           location, load_crate_cfg, strict-mode panic)  *)
(*   "fields" -> FieldStep  (lines 154-196: one iteration of the loop)     *)
(*   "fields" -> Emit       (lines 198-228: the emitted token stream)      *)
(*   "done"   -> Rebuild    (cargo expands the macro again, with the       *)
(*                           TOML_CFG variable changed and nothing else)   *)
(* A panic ends the expansion with no token stream.                        *)
(*                                                                         *)
(* Text (TOML renderings, attribute arguments) is a sequence of one-       *)
(* character strings; a path is a sequence of components.                  *)
(***************************************************************************)
EXTENDS Integers, Sequences, FiniteSets, TLC

\* Largest number of fields of the annotated struct.
MaxFields == 2

None == [some |-> FALSE]
Some(v) == [some |-> TRUE, val |-> v]

(***************************************************************************)
(* Text helpers.                                                           *)
(***************************************************************************)
DigitChars == <<"0", "1", "2", "3", "4", "5", "6", "7", "8", "9">>

DigitSet == {DigitChars[k] : k \in 1..10}

DigitValue(c) == (CHOOSE k \in 1..10 : DigitChars[k] = c) - 1

RECURSIVE Digits(_)
\* Decimal rendering of a non-negative integer (i64 Display).
Digits(n) == IF n < 10 THEN <<DigitChars[n + 1]>>
             ELSE Digits(n \div 10) \o <<DigitChars[(n % 10) + 1]>>

RECURSIVE DigitsValue(_)
DigitsValue(s) == IF s = <<>> THEN 0
                  ELSE 10 * DigitsValue(SubSeq(s, 1, Len(s) - 1)) + DigitValue(s[Len(s)])

\* The characters a TOML string of the model may hold; BS is U+0008.
BS == "<BS>"
QUOTE == "\""
BACKSLASH == "\\"

(***************************************************************************)
(* toml::Value and its Display (t.to_string(), line 173).                  *)
(***************************************************************************)
Integer(n) == [type |-> "Integer", n |-> n, s |-> <<>>]
String(s) == [type |-> "String", n |-> 0, s |-> s]

\* One character of a TOML basic string, escaped as the toml serializer does.
TomlEscape(c) == IF c = BS THEN <<BACKSLASH, "b">>
                 ELSE IF c = QUOTE THEN <<BACKSLASH, QUOTE>>
                 ELSE IF c = BACKSLASH THEN <<BACKSLASH, BACKSLASH>>
                 ELSE <<c>>

RECURSIVE TomlEscapeAll(_)
TomlEscapeAll(s) == IF s = <<>> THEN <<>>
                    ELSE TomlEscape(Head(s)) \o TomlEscapeAll(Tail(s))

\* toml::Value's Display: the value written in TOML syntax.
to_string(t) == IF t.type = "Integer" THEN Digits(t.n)
                ELSE <<QUOTE>> \o TomlEscapeAll(t.s) \o <<QUOTE>>

(***************************************************************************)
(* syn's expression parser, on the texts the model produces: an integer    *)
(* literal, a string literal with Rust's escapes, anything else an error.  *)
(***************************************************************************)
ExprInt(n) == [kind |-> "Int", n |-> n, s |-> <<>>]
ExprStr(s) == [kind |-> "Str", n |-> 0, s |-> s]

Ok(e) == [ok |-> TRUE, expr |-> e]
Err == [ok |-> FALSE, expr |-> ExprInt(0)]

\* The single-character escapes Rust's lexer accepts in a string literal.
RustEscapes == {"n", "r", "t", "0", "'", QUOTE, BACKSLASH}

RECURSIVE RustUnescape(_)
\* The content of a string literal's interior, or an error: an unknown
\* escape, a bare quote, or a trailing backslash.
RustUnescape(s) ==
    IF s = <<>> THEN Ok(ExprStr(<<>>))
    ELSE IF Head(s) = QUOTE THEN Err
    ELSE IF Head(s) = BACKSLASH
         THEN IF Len(s) < 2 \/ s[2] \notin RustEscapes THEN Err
              ELSE LET rest == RustUnescape(SubSeq(s, 3, Len(s)))
                   IN  IF rest.ok THEN Ok(ExprStr(<<s[2]>> \o rest.expr.s)) ELSE Err
    ELSE LET rest == RustUnescape(Tail(s))
         IN  IF rest.ok THEN Ok(ExprStr(<<Head(s)>> \o rest.expr.s)) ELSE Err

\* syn::parse_str::<Expr> (line 174) and Attribute::parse_args (line 179).
parse_Expr(text) ==
    IF text # <<>> /\ \A k \in 1..Len(text) : text[k] \in DigitSet
    THEN Ok(ExprInt(DigitsValue(text)))
    ELSE IF Len(text) >= 2 /\ text[1] = QUOTE /\ text[Len(text)] = QUOTE
    THEN RustUnescape(SubSeq(text, 2, Len(text) - 1))
    ELSE Err

(***************************************************************************)
(* The annotated struct (syn::ItemStruct, line 138).                       *)
(***************************************************************************)
\* Field identifiers and types, by position in the struct.
Idents == <<"buffer_size", "greeting", "wifi_ssid", "wifi_passkey">>
Tys == <<"usize", "&'static str", "&'static str", "&'static str">>

\* A key of the config file that names no field of any struct.
StrayKey == "log_level"

struct_ident == "Config"

\* Arguments of #[default(...)]: `32`, and `1 2`, which is no expression.
DefaultArgs == {<<"3", "2">>, <<"1", " ", "2">>}

\* #[required] is absent, a bare path, or carries arguments (#[required(0)]).
RequiredForms == {"absent", "path", "list"}

FieldAttrs == [default : {None} \cup {Some(a) : a \in DefaultArgs},
               required : RequiredForms]

Field(i, a) == [ident |-> Idents[i], ty |-> Tys[i],
                default |-> a.default, required |-> a.required]

StructDefns == UNION {{[i \in 1..n |-> Field(i, as[i])] : as \in [1..n -> FieldAttrs]}
                      : n \in 0..MaxFields}

(***************************************************************************)
(* The build environment: rustc's arguments, the file system, the          *)
(* process environment.                                                    *)
(***************************************************************************)
OutDirFlag == <<"--out-dir">>

\* rustc invoked by cargo, by something that has no target directory, and
\* with no --out-dir at all.
ArgsCargo == <<<<"rustc">>, OutDirFlag, <<"proj", "target", "debug", "deps">>>>
ArgsNoTarget == <<<<"rustc">>, OutDirFlag, <<"tmp", "build">>>>
ArgsNoOutDir == <<<<"rustc">>>>

PkgName == "lib-one"
OtherPkg == "lib-two"

TomlValues == {Integer(4096), String(<<"h", "i">>), String(<<BS>>)}

EmptyMap == [k \in {} |-> Integer(0)]

\* The tables a crate can have in cfg.toml, over the given field identifiers.
Tables(idents) ==
    UNION {{f @@ s : f \in [K -> TomlValues],
                     s \in {EmptyMap, StrayKey :> Integer(4096)}}
           : K \in SUBSET idents}

OtherTable == (Idents[1] :> Integer(7)) @@ ("greeting" :> String(<<"y", "o">>))

\* The content of a file: TOML of the shape of Config (lines 124-134), or not.
TomlFile(crates) == [valid |-> TRUE, crates |-> crates]
InvalidFile == [valid |-> FALSE, crates |-> [k \in {} |-> EmptyMap]]

CfgTomlPath == <<"proj", "cfg.toml">>

NoFiles == [p \in {} |-> InvalidFile]

\* The file systems of the model: no cfg.toml, one that is not TOML, one with
\* no table for this crate, and one with each table for this crate.
FileSystems(idents) ==
    {NoFiles, CfgTomlPath :> InvalidFile,
     CfgTomlPath :> TomlFile(OtherPkg :> OtherTable)}
    \cup {CfgTomlPath :> TomlFile((PkgName :> t) @@ (OtherPkg :> OtherTable))
          : t \in Tables(idents)}

\* Values of the TOML_CFG variable, as comma-separated words.
TomlCfgValues == {None, Some(<<"require_cfg_present">>), Some(<<"verbose">>)}

FieldIdents(defn) == {defn[i].ident : i \in 1..Len(defn)}

\* The environments one struct is expanded in. Where no root path is found
\* the file system is not read, and where CARGO_PKG_NAME is unset the crate's
\* table is not looked up: one representative of each is kept.
Environments(defn) ==
    {[args |-> a, fs |-> NoFiles, pkg |-> Some(PkgName)]
        : a \in {ArgsNoTarget, ArgsNoOutDir}}
    \cup {[args |-> ArgsCargo, fs |-> f, pkg |-> Some(PkgName)]
        : f \in FileSystems(FieldIdents(defn))}
    \cup {[args |-> ArgsCargo,
           fs |-> CfgTomlPath :> TomlFile((PkgName :> EmptyMap) @@ (OtherPkg :> OtherTable)),
           pkg |-> None]}

(***************************************************************************)
(* Helpers of toml_config.                                                 *)
(***************************************************************************)
\* require_cfg_present_of without the test of the value: is_ok() alone.
require_cfg_present_is_ok(v) == v.some

\* env::var("TOML_CFG").is_ok_and(|v| v.contains("require_cfg_present"))
require_cfg_present_of(v) ==
    v.some /\ \E k \in 1..Len(v.val) : v.val[k] = "require_cfg_present"

RECURSIVE ScanOutDir(_, _, _)
\* The while-let loop over std::env::args(): the value after the last
\* "--out-dir", which the loop consumes together with the flag.
ScanOutDir(args, k, out_dir) ==
    IF k > Len(args) THEN out_dir
    ELSE IF args[k] = OutDirFlag
         THEN ScanOutDir(args, k + 2,
                         IF k + 1 <= Len(args) THEN Some(args[k + 1]) ELSE None)
         ELSE ScanOutDir(args, k + 1, out_dir)

RECURSIVE PopToTarget(_)
\* Pop trailing components until the path ends with "target".
PopToTarget(p) ==
    IF p # <<>> /\ p[Len(p)] = "target" THEN Some(p)
    ELSE IF p = <<>> THEN None
    ELSE PopToTarget(SubSeq(p, 1, Len(p) - 1))

find_root_path(args) ==
    LET out_dir == ScanOutDir(args, 1, None)
    IN  IF ~out_dir.some THEN None
        ELSE LET t == PopToTarget(out_dir.val)
             IN  IF ~t.some THEN None
                 ELSE Some(SubSeq(t.val, 1, Len(t.val) - 1))

\* Defn::default(): no values.
DefaultDefn == [vals |-> EmptyMap]

load_crate_cfg(path, fs, pkg) ==
    IF path \notin DOMAIN fs THEN None
    ELSE IF ~fs[path].valid THEN None
    ELSE IF ~pkg.some THEN None
    ELSE IF pkg.val \notin DOMAIN fs[path].crates THEN None
    ELSE Some([vals |-> fs[path].crates[pkg.val]])

\* A panic of the macro: which message, the field it names, the text it quotes.
Panic(kind, ident, text) == [kind |-> kind, field |-> ident, text |-> text]

NoField == ""

\* The result of one loop iteration: a panic, or the field's value; and
\* whether the #[default] arguments were parsed on the way.
Resolved(e) == [panic |-> None, val |-> e, parsed_default |-> FALSE]
Failed(p, d) == [panic |-> Some(p), val |-> ExprInt(0), parsed_default |-> d]

\* from_attributes without the (None, Some(_)) arm: a required field with no
\* value falls through to the catch-all arm.
from_attributes_no_required_arm(field) ==
    IF field.default.some /\ field.required = "absent"
    THEN LET p == parse_Expr(field.default.val)
         IN  IF p.ok THEN [panic |-> None, val |-> p.expr, parsed_default |-> TRUE]
             ELSE Failed(Panic("failed to parse default value", field.ident, <<>>), TRUE)
    ELSE Failed(Panic("expected exactly one of required or default", field.ident, <<>>), FALSE)

\* Lines 177-183: the field is not in the config file.
from_attributes(field) ==
    IF field.default.some /\ field.required = "absent"
    THEN LET p == parse_Expr(field.default.val)
         IN  IF p.ok THEN [panic |-> None, val |-> p.expr, parsed_default |-> TRUE]
             ELSE Failed(Panic("failed to parse default value", field.ident, <<>>), TRUE)
    ELSE IF ~field.default.some /\ field.required # "absent"
    THEN Failed(Panic("required but no value was provided", field.ident, <<>>), FALSE)
    ELSE Failed(Panic("expected exactly one of required or default", field.ident, <<>>), FALSE)

\* from_config passing on a text that is no expression instead of panicking.
from_config_lenient(field, t) ==
    LET t_string == to_string(t)
        p == parse_Expr(t_string)
    IN  IF p.ok THEN Resolved(p.expr) ELSE Resolved(ExprStr(t_string))

\* Lines 171-176: the field is in the config file.
from_config(field, t) ==
    LET t_string == to_string(t)
        p == parse_Expr(t_string)
    IN  IF p.ok THEN Resolved(p.expr)
        ELSE Failed(Panic("failed to parse as a valid token", field.ident, t_string), FALSE)

\* field_val with the precedence reversed: a declared default wins over the
\* config file.
field_val_default_first(field, cfg) ==
    IF field.default.some /\ field.required = "absent"
    THEN from_attributes(field)
    ELSE IF field.ident \in DOMAIN cfg.vals
    THEN from_config(field, cfg.vals[field.ident])
    ELSE from_attributes(field)

\* field_val with no fallback to the attributes: every field must be in the
\* config file.
field_val_no_fallback(field, cfg) ==
    IF field.ident \in DOMAIN cfg.vals
    THEN from_config(field, cfg.vals[field.ident])
    ELSE Failed(Panic("required but no value was provided", field.ident, <<>>), FALSE)

\* Lines 171-184: is this field provided by the config file?
field_val(field, cfg) ==
    IF field.ident \in DOMAIN cfg.vals
    THEN from_config(field, cfg.vals[field.ident])
    ELSE from_attributes(field)

\* Lines 159-184: the body of the loop up to `val`.
field_result(field, cfg) ==
    IF field.required = "list"
    THEN Failed(Panic("unexpected arguments to required", field.ident, <<>>), FALSE)
    ELSE field_val(field, cfg)

\* to_tokens writing in front of the stream instead of at its end.
to_tokens_front(stream, tokens) == <<tokens>> \o stream

\* Lines 187-195: quote! { ... }.to_tokens(&mut stream).
to_tokens(stream, tokens) == Append(stream, tokens)

\* Lines 205-212: the include_bytes! that makes cargo track the file.
hack_retrigger_of(cfg_path) ==
    IF cfg_path.some THEN Some(cfg_path.val) ELSE None

\* heck's TO_SHOUTY_SNEK_CASE, on the struct identifiers of the model.
ShoutySnek(ident) == IF ident = "Config" THEN "CONFIG" ELSE ident

\* Lines 214-227: the emitted struct, constant and hack module.
quote_output(defn_fields, inst_fields, cfg_path) ==
    [struct |-> [ident |-> struct_ident, fields |-> defn_fields],
     const |-> [ident |-> ShoutySnek(struct_ident), ty |-> struct_ident,
                fields |-> inst_fields],
     toml_cfg_hack |-> hack_retrigger_of(cfg_path)]

(***************************************************************************)
(* State.                                                                  *)
(***************************************************************************)
VARIABLES
    struct_defn,         \* the fields of the annotated struct, in order
    args,                \* std::env::args()
    fs,                  \* the file system: path -> file
    env,                 \* CARGO_PKG_NAME and TOML_CFG
    pc,                  \* "start", "fields", "done"
    require_cfg_present, \* line 141
    cfg_path,            \* line 143
    maybe_cfg,           \* line 144
    cfg,                 \* line 149
    next_field,          \* position of the loop of line 154
    struct_defn_fields,  \* line 151
    struct_inst_fields,  \* line 152
    default_parses,      \* the fields whose #[default] arguments were parsed
    output,              \* the returned token stream, if any
    panic,               \* the panic that ended the expansion, if any
    prev                 \* the result of the expansion before a rebuild

inputs == <<struct_defn, args, fs>>
locals == <<require_cfg_present, cfg_path, maybe_cfg, cfg, next_field,
            struct_defn_fields, struct_inst_fields, default_parses>>
vars == <<inputs, env, pc, locals, output, panic, prev>>

InitLocals ==
    /\ require_cfg_present = FALSE
    /\ cfg_path = None
    /\ maybe_cfg = None
    /\ cfg = DefaultDefn
    /\ next_field = 1
    /\ struct_defn_fields = <<>>
    /\ struct_inst_fields = <<>>
    /\ default_parses = <<>>

Init ==
    /\ struct_defn \in StructDefns
    /\ \E e \in Environments(struct_defn), v \in TomlCfgValues :
          /\ args = e.args
          /\ fs = e.fs
          /\ env = [CARGO_PKG_NAME |-> e.pkg, TOML_CFG |-> v]
    /\ pc = "start"
    /\ InitLocals
    /\ output = None
    /\ panic = None
    /\ prev = None

\* Lines 141-149.
Prologue ==
    /\ pc = "start"
    /\ LET require == require_cfg_present_of(env.TOML_CFG)
           root == find_root_path(args)
           path == IF root.some THEN Some(root.val \o <<"cfg.toml">>) ELSE None
           loaded == IF path.some
                     THEN load_crate_cfg(path.val, fs, env.CARGO_PKG_NAME)
                     ELSE None
       IN  /\ require_cfg_present' = require
           /\ cfg_path' = path
           /\ maybe_cfg' = loaded
           /\ IF require /\ ~loaded.some
              THEN /\ panic' = Some(Panic("require_cfg_present set, but valid config not found",
                                          NoField, <<>>))
                   /\ pc' = "done"
                   /\ cfg' = cfg
              ELSE /\ cfg' = IF loaded.some THEN loaded.val ELSE DefaultDefn
                   /\ pc' = "fields"
                   /\ panic' = panic
    /\ UNCHANGED <<inputs, env, next_field, struct_defn_fields, struct_inst_fields,
                   default_parses, output, prev>>

\* Lines 154-196: one iteration of the loop over the fields.
FieldStep ==
    /\ pc = "fields"
    /\ next_field <= Len(struct_defn)
    /\ LET field == struct_defn[next_field]
           r == field_result(field, cfg)
       IN  /\ default_parses' = IF r.parsed_default
                                THEN Append(default_parses, field.ident)
                                ELSE default_parses
           /\ IF r.panic.some
              THEN /\ panic' = r.panic
                   /\ pc' = "done"
                   /\ UNCHANGED <<next_field, struct_defn_fields, struct_inst_fields>>
              ELSE /\ struct_defn_fields' =
                        to_tokens(struct_defn_fields, [ident |-> field.ident, ty |-> field.ty])
                   /\ struct_inst_fields' =
                        to_tokens(struct_inst_fields, [ident |-> field.ident, val |-> r.val])
                   /\ next_field' = next_field + 1
                   /\ UNCHANGED <<panic, pc>>
    /\ UNCHANGED <<inputs, env, require_cfg_present, cfg_path, maybe_cfg, cfg, output, prev>>

\* Lines 198-228: the loop is over; the token stream is returned.
Emit ==
    /\ pc = "fields"
    /\ next_field > Len(struct_defn)
    /\ output' = Some(quote_output(struct_defn_fields, struct_inst_fields, cfg_path))
    /\ pc' = "done"
    /\ UNCHANGED <<inputs, env, locals, panic, prev>>

\* cargo runs the expansion again with TOML_CFG changed and nothing else.
Rebuild ==
    /\ pc = "done"
    /\ ~prev.some
    /\ \E v \in TomlCfgValues \ {env.TOML_CFG} :
          env' = [env EXCEPT !.TOML_CFG = v]
    /\ prev' = Some([require_cfg_present |-> require_cfg_present,
                     maybe_cfg |-> maybe_cfg,
                     output |-> output, panic |-> panic])
    /\ pc' = "start"
    /\ require_cfg_present' = FALSE
    /\ cfg_path' = None
    /\ maybe_cfg' = None
    /\ cfg' = DefaultDefn
    /\ next_field' = 1
    /\ struct_defn_fields' = <<>>
    /\ struct_inst_fields' = <<>>
    /\ default_parses' = <<>>
    /\ output' = None
    /\ panic' = None
    /\ UNCHANGED inputs

Next == Prologue \/ FieldStep \/ Emit

Spec == Init /\ [][Next]_vars

NextRebuild == Prologue \/ FieldStep \/ Emit \/ Rebuild

SpecRebuild == Init /\ [][NextRebuild]_vars

(***************************************************************************)
(* Vocabulary of the properties, in terms of the inputs and the result.    *)
(***************************************************************************)
Done == pc = "done"
Succeeded == Done /\ output.some
Failed_with(kind) == Done /\ panic.some /\ panic.val.kind = kind

DocumentRequiredError == "require_cfg_present set, but valid config not found"
ParseError == "failed to parse as a valid token"
DefaultParseError == "failed to parse default value"
MissingRequiredError == "required but no value was provided"
PolicyConflictError == "expected exactly one of required or default"

NFields == Len(struct_defn)

\* The strict-mode signal, read off the TOML_CFG values of the model.
StrictSignal == env.TOML_CFG = Some(<<"require_cfg_present">>)

\* A file exists at the location the document is expected at.
FileAtLocation == args = ArgsCargo /\ CfgTomlPath \in DOMAIN fs

\* The table of the override document under the active identity, if any.
OverrideTable ==
    IF /\ FileAtLocation
       /\ fs[CfgTomlPath].valid
       /\ env.CARGO_PKG_NAME.some
       /\ env.CARGO_PKG_NAME.val \in DOMAIN fs[CfgTomlPath].crates
    THEN Some(fs[CfgTomlPath].crates[env.CARGO_PKG_NAME.val])
    ELSE None

DocumentFound == OverrideTable.some

HasEntry(i) == OverrideTable.some /\ struct_defn[i].ident \in DOMAIN OverrideTable.val
Entry(i) == OverrideTable.val[struct_defn[i].ident]

\* The expression a TOML value stands for.
ValueAsExpr(t) == IF t.type = "Integer" THEN ExprInt(t.n) ELSE ExprStr(t.s)

\* Whether the value, written in TOML syntax, reads as an expression.
Renders(t) == parse_Expr(to_string(t)).ok

DeclaredDefault(i) == struct_defn[i].default.some /\ struct_defn[i].required = "absent"
DeclaredRequired(i) == ~struct_defn[i].default.some /\ struct_defn[i].required = "path"
DeclaredBoth(i) == struct_defn[i].default.some /\ struct_defn[i].required = "path"
DeclaredNeither(i) == ~struct_defn[i].default.some /\ struct_defn[i].required = "absent"
Conflicted(i) == DeclaredBoth(i) \/ DeclaredNeither(i)
WellFormedDefault(i) == parse_Expr(struct_defn[i].default.val).ok
DefaultValue(i) == parse_Expr(struct_defn[i].default.val).expr

\* The value the emitted constant gives field i.
ResolvedValue(i) == output.val.const.fields[i].val

NamesField(i) == panic.val.field = struct_defn[i].ident
NamesEarlierField(i) == \E j \in 1..(i - 1) : NamesField(j)

\* The pass was aborted before it got to field i.
AbortedBefore(i) == Failed_with(DocumentRequiredError) \/ (Done /\ panic.some /\ NamesEarlierField(i))

\* C1: a field with a default whose override entry is Y resolves, when
\* resolution succeeds, to Y; the default is not even parsed.
C1_OverridePrecedence ==
    Succeeded =>
        \A i \in 1..NFields :
            (struct_defn[i].default.some /\ HasEntry(i)) =>
                /\ ResolvedValue(i) = ValueAsExpr(Entry(i))
                /\ \A k \in 1..Len(default_parses) : default_parses[k] # struct_defn[i].ident

C1_Witness ==
    /\ Succeeded
    /\ \E i \in 1..NFields :
          /\ DeclaredDefault(i) /\ WellFormedDefault(i) /\ HasEntry(i)
          /\ ResolvedValue(i) # DefaultValue(i)

\* C2, as stated, of every pass that strict mode lets begin: a Required
\* field with no entry makes resolution fail with MissingRequiredError naming
\* it; with an entry it resolves to the parsed override value.
C2_Original ==
    (Done /\ ~Failed_with(DocumentRequiredError)) =>
        \A i \in 1..NFields :
            DeclaredRequired(i) =>
                IF HasEntry(i)
                THEN output.some /\ ResolvedValue(i) = ValueAsExpr(Entry(i))
                ELSE Failed_with(MissingRequiredError) /\ NamesField(i)

\* C2, amended: a Required field with no entry makes resolution fail, with
\* MissingRequiredError naming it unless strict mode or an earlier field
\* aborted the pass first; with an entry, and resolution succeeding, it
\* resolves to the parsed override value.
C2_Required ==
    Done =>
        \A i \in 1..NFields :
            DeclaredRequired(i) =>
                IF HasEntry(i)
                THEN output.some => ResolvedValue(i) = ValueAsExpr(Entry(i))
                ELSE /\ panic.some
                     /\ ~output.some
                     /\ \/ AbortedBefore(i)
                        \/ Failed_with(MissingRequiredError) /\ NamesField(i)

C2_Witness ==
    \E i \in 1..NFields :
        /\ i > 1
        /\ DeclaredRequired(i)
        /\ ~HasEntry(i)
        /\ Failed_with(MissingRequiredError)
        /\ NamesField(i)

\* C3, as stated, granting that strict mode or a field declared before the
\* conflicted one may end the pass first: a schema with a field that has both
\* policies, or neither, fails with PolicyConflictError whatever the override
\* document contains, also when it has an entry for that field.
C3_PolicyConflict ==
    (Done /\ \E i \in 1..NFields : Conflicted(i)) =>
        LET first == CHOOSE i \in 1..NFields :
                        Conflicted(i) /\ \A j \in 1..(i - 1) : ~Conflicted(j)
        IN  /\ panic.some
            /\ \/ Failed_with(PolicyConflictError)
               \/ AbortedBefore(first)

\* C4, as stated: strict mode and no document found fails with
\* DocumentRequiredError; without strict mode, no document found and only
\* Default fields succeeds with the defaults.
C4_Original ==
    Done =>
        /\ (StrictSignal /\ ~DocumentFound) => Failed_with(DocumentRequiredError)
        /\ (~StrictSignal /\ ~DocumentFound /\ \A i \in 1..NFields : DeclaredDefault(i))
              => /\ output.some
                 /\ \A i \in 1..NFields : ResolvedValue(i) = DefaultValue(i)

\* C4, amended: the second half holds for schemas whose default literals
\* are well-formed expressions.
C4_StrictMode ==
    Done =>
        /\ (StrictSignal /\ ~DocumentFound) => Failed_with(DocumentRequiredError) /\ ~output.some
        /\ (/\ ~StrictSignal
            /\ ~DocumentFound
            /\ \A i \in 1..NFields : DeclaredDefault(i) /\ WellFormedDefault(i))
              => /\ output.some
                 /\ ~panic.some
                 /\ \A i \in 1..NFields : ResolvedValue(i) = DefaultValue(i)

C4_Witness ==
    /\ Succeeded
    /\ env.TOML_CFG = Some(<<"verbose">>)
    /\ FileAtLocation
    /\ ~DocumentFound
    /\ NFields = MaxFields
    /\ \A i \in 1..NFields : DeclaredDefault(i)

\* The first half of C4 happens too.
C4_WitnessStrict ==
    StrictSignal /\ ~DocumentFound /\ Failed_with(DocumentRequiredError)

\* C5, as stated: with a document at the expected location, the expansion
\* gives the same outcome with strict mode on as with strict mode off.
C5_StrictOnlyGatesAbsence ==
    (/\ Done
     /\ prev.some
     /\ prev.val.require_cfg_present # require_cfg_present
     /\ FileAtLocation
     /\ fs[CfgTomlPath].valid
     /\ env.CARGO_PKG_NAME.some)
        => (output = prev.val.output /\ panic = prev.val.panic)

\* C6, as stated: the emitted artifact depends on the document's file
\* exactly when an override document was found.
C6_DependencyIffFound ==
    Succeeded => (output.val.toml_cfg_hack.some <=> DocumentFound)

\* C7, as stated, of every pass that strict mode lets begin: a schema with
\* a conflicted field fails with PolicyConflictError naming the
\* earliest-declared conflicted field, whatever earlier fields would fail
\* with.
C7_ValidatedUpFront ==
    (/\ Done
     /\ ~Failed_with(DocumentRequiredError)
     /\ \E i \in 1..NFields : Conflicted(i)) =>
        LET first == CHOOSE i \in 1..NFields :
                        Conflicted(i) /\ \A j \in 1..(i - 1) : ~Conflicted(j)
        IN  Failed_with(PolicyConflictError) /\ NamesField(first)

\* C8, as stated: only Default fields, no override document, strict mode
\* off: resolution succeeds with every default, each parsed exactly once.
C8_Original ==
    (/\ Done
     /\ ~StrictSignal
     /\ ~DocumentFound
     /\ \A i \in 1..NFields : DeclaredDefault(i))
        => /\ output.some
           /\ \A i \in 1..NFields : ResolvedValue(i) = DefaultValue(i)
           /\ default_parses = [i \in 1..NFields |-> struct_defn[i].ident]

\* C8, amended: for schemas whose default literals are well-formed
\* expressions.
C8_DefaultsOnly ==
    (/\ Done
     /\ ~StrictSignal
     /\ ~DocumentFound
     /\ \A i \in 1..NFields : DeclaredDefault(i) /\ WellFormedDefault(i))
        => /\ output.some
           /\ Len(output.val.const.fields) = NFields
           /\ \A i \in 1..NFields : ResolvedValue(i) = DefaultValue(i)
           /\ default_parses = [i \in 1..NFields |-> struct_defn[i].ident]

C8_Witness ==
    /\ Succeeded
    /\ env.TOML_CFG = None
    /\ ~FileAtLocation
    /\ NFields = MaxFields
    /\ \A i \in 1..NFields : DeclaredDefault(i) /\ ResolvedValue(i) = ExprInt(32)
    /\ Len(default_parses) = NFields

\* Whether processing field i fails: #[required] with arguments, an override
\* that does not parse, a malformed default, a missing required value, a
\* policy conflict.
FieldFails(i) ==
    \/ struct_defn[i].required = "list"
    \/ HasEntry(i) /\ ~Renders(Entry(i))
    \/ ~HasEntry(i) /\ DeclaredDefault(i) /\ ~WellFormedDefault(i)
    \/ ~HasEntry(i) /\ ~DeclaredDefault(i)

\* C9: resolution is all-or-nothing. A failed pass emits nothing and, unless
\* strict mode ended it, names the first field, in declaration order, whose
\* processing fails; a pass with no failing field emits the artifact.
C9_AllOrNothing ==
    Done =>
        /\ panic.some <=> ~output.some
        /\ panic.some =>
              /\ output = None
              /\ \/ Failed_with(DocumentRequiredError) /\ StrictSignal /\ ~DocumentFound
                 \/ \E i \in 1..NFields :
                       /\ NamesField(i)
                       /\ FieldFails(i)
                       /\ \A j \in 1..(i - 1) : ~FieldFails(j)
        /\ output.some => \A i \in 1..NFields : ~FieldFails(i)

C9_Witness ==
    /\ Done
    /\ panic.some
    /\ output = None
    /\ next_field > 1
    /\ Len(struct_inst_fields) = next_field - 1
    /\ NamesField(next_field)

\* C10: on success the emitted record and constant have exactly one entry
\* per field of the struct, in declaration order, and nothing else.
C10_OneEntryPerField ==
    Succeeded =>
        /\ output.val.struct.fields =
              [i \in 1..NFields |-> [ident |-> struct_defn[i].ident, ty |-> struct_defn[i].ty]]
        /\ Len(output.val.const.fields) = NFields
        /\ \A i \in 1..NFields : output.val.const.fields[i].ident = struct_defn[i].ident

C10_Witness ==
    /\ Succeeded
    /\ NFields = MaxFields
    /\ OverrideTable.some
    /\ StrayKey \in DOMAIN OverrideTable.val
    /\ OtherPkg \in DOMAIN fs[CfgTomlPath].crates

====
